---- MODULE Spec2Model ----
(***************************************************************************)
(* Model of variant_qc/exomes_genomes_coverage.py: the gene-model builder  *)
(* (import_cds_from_gtf), the haploid-adjusted coverage aggregation        *)
(* (get_haploid_coverage_struct, get_cov_ht), the per-base join            *)
(* (compute_per_base_cds_coverage), the gene summary export                *)
(* (export_gene_coverage) and the stage dispatch of main.                  *)
(*                                                                         *)
(* Tables are sets of rows (row order is not relied upon by the code).     *)
(* Numbers that the code computes as floats are kept as exact rationals    *)
(* [num, den]; a missing value (Hail null) is the value NULL.  Strings the *)
(* code splits or tests by prefix are sequences of one-character strings.  *)
(* The median fields of the coverage struct (lines 34 and 42) are outside  *)
(* this development: no property below refers to them.                     *)
(***************************************************************************)
EXTENDS Integers, Sequences, FiniteSets, TLC

VARIABLES
    annotation,         \* the annotation (GTF) file: a set of features
    cov_mt,             \* the grouped coverage matrices, by data type
    ucsc_mappability,   \* the mappability table, keyed by locus
    args,               \* the flags main was called with
    pc,                 \* where the run is
    run,                \* the number of the run (invocation of the script)
    cov_ht,             \* what get_cov_ht returned, by data type
    exploded,           \* import_cds_from_gtf: the table after explode
    gtf,                \* the gene model import_cds_from_gtf returned
    checkpoint,         \* the file gencode_grch37.gene_by_base.ht
    joined,             \* the file gencode_grch37.gene_by_base.cov.ht
    tsv,                \* the exported summary file
    started,            \* the stages this run has started
    failed,             \* the stage this run failed in, or "none"
    gtf_imports         \* how often the gene model was computed from the
                        \* annotation file

vars == <<annotation, cov_mt, ucsc_mappability, args, pc, run, cov_ht, exploded,
          gtf, checkpoint, joined, tsv, started, failed, gtf_imports>>

\* A missing value (Hail null).
NULL == [missing |-> TRUE]

----------------------------------------------------------------------------
(* Bounds of the model. *)

MaxPos == 3          \* positions on a contig are 1..MaxPos
MaxN == 2            \* a grouped column counts 1..MaxN samples
MaxCols == 2         \* a coverage matrix has 1..MaxCols grouped columns
MaxRuns == 2         \* the script is run at most MaxRuns times

\* The depth profiles of a grouped column: its mean depth, and the doubled
\* threshold up to which all of its n samples are counted in over_<x> (none
\* are counted over the higher thresholds).
Profiles == {[mean |-> 1, cut |-> 1], [mean |-> 3, cut |-> 15], [mean |-> 3, cut |-> 30]}

----------------------------------------------------------------------------
(* Rationals. *)

Rat(a, b) == [num |-> a, den |-> b]

RatEq(x, y) == x.num * y.den = y.num * x.den

RatGeq(x, y) == x.num * y.den >= y.num * x.den

----------------------------------------------------------------------------
(* Loci.  Contig "1" stands for the autosomes; on X and Y the positions up *)
(* to ParEnd stand for the pseudo-autosomal region of the reference.       *)

Contigs == {"1", "X", "Y"}

ParEnd == 1

Loci == [contig : Contigs, position : 1..MaxPos]

InAutosomeOrPar(l) == l.contig \notin {"X", "Y"} \/ l.position <= ParEnd

----------------------------------------------------------------------------
(* Threshold columns.  A column over_<x> is identified by d = 2x, so that  *)
(* the halved thresholds are integers; OverField gives its name as Python  *)
(* formats the float x.                                                    *)

Thresholds == {1, 5, 10, 15, 20, 25, 30, 50, 100}

OverField(d) ==
    CASE d = 1   -> "over_0.5"
      [] d = 2   -> "over_1.0"
      [] d = 5   -> "over_2.5"
      [] d = 10  -> "over_5.0"
      [] d = 15  -> "over_7.5"
      [] d = 20  -> "over_10.0"
      [] d = 25  -> "over_12.5"
      [] d = 30  -> "over_15.0"
      [] d = 40  -> "over_20.0"
      [] d = 50  -> "over_25.0"
      [] d = 60  -> "over_30.0"
      [] d = 100 -> "over_50.0"
      [] d = 200 -> "over_100.0"

\* f'over_{i/2}'
HalfName(i) == OverField(i)

\* f'over_{float(i)}'
FullName(i) == OverField(2 * i)

FullCols == {FullName(i) : i \in Thresholds}

HalfCols == {HalfName(i) : i \in Thresholds}

Doubled(name) == CHOOSE d \in Thresholds \cup {2 * i : i \in Thresholds} : OverField(d) = name

----------------------------------------------------------------------------
(* Arithmetic on rationals, as the code's float expressions. *)

Int2Rat(k) == Rat(k, 1)

\* Variant of HALF: the factor left out.
WHOLE == Rat(1, 1)

\* The factor 0.5 of lines 33, 34, 41 and 42.
HALF == Rat(1, 2)

RMul(x, y) == Rat(x.num * y.num, x.den * y.den)

RDiv(x, y) == Rat(x.num * y.den, x.den * y.num)

RAdd(x, y) == Rat(x.num * y.den + y.num * x.den, x.den * y.den)

\* hl.agg.sum over the records S of the expression f (a function on S);
\* a missing value does not contribute.
RECURSIVE AggSum(_, _)
AggSum(S, f) ==
    IF S = {} THEN Int2Rat(0)
    ELSE LET c == CHOOSE c \in S : TRUE
         IN  IF f[c] = NULL THEN AggSum(S \ {c}, f)
             ELSE RAdd(f[c], AggSum(S \ {c}, f))

\* hl.agg.mean: the sum of the non-missing values over their count.
AggMean(S, f) ==
    RDiv(AggSum(S, f), Int2Rat(Cardinality({c \in S : f[c] # NULL})))

\* hl.agg.fraction: the records where the predicate is true, over all the
\* records; p is the set of records where it is true.
AggFraction(S, p) == Rat(Cardinality(p), Cardinality(S))

\* hl.cond
Cond(b, x, y) == IF b THEN x ELSE y

----------------------------------------------------------------------------
(* Coverage matrices (grouped=True): one column per (qc_platform, sex)     *)
(* group, one row per locus, entries n, mean and the over_<x> counts.      *)

EXOMES == <<"e", "x", "o", "m", "e", "s">>

GENOMES == <<"g", "e", "n", "o", "m", "e", "s">>

DataTypes == {EXOMES, GENOMES}

\* qc_platform values; a platform name may itself contain underscores.
Platforms == {<<"a">>, <<"b", "_", "c">>}

Sexes == {"male", "female"}

Groups == [qc_platform : Platforms, sex : Sexes]

\* Entry schemas: the raw threshold columns, with some of the
\* halved-threshold columns that are not raw thresholds.
Schemas == {FullCols \cup {"over_0.5", "over_7.5"}, FullCols \cup {"over_2.5", "over_12.5"}}

Entry(schema, n, p) ==
    [n |-> n, mean |-> p.mean,
     over |-> [c \in schema |-> IF Doubled(c) <= p.cut THEN n ELSE 0]]

Entries(schema) == {Entry(schema, n, p) : n \in 1..MaxN, p \in Profiles}

ColSets == {C \in SUBSET Groups : Cardinality(C) \in 1..MaxCols}

\* The matrices with the rows L.
Matrices(L) ==
    UNION {UNION {{[entry |-> schema, cols |-> C, rows |-> r] :
                     r \in [L -> [C -> Entries(schema)]]} :
                  C \in ColSets} :
           schema \in Schemas}

----------------------------------------------------------------------------
(* get_haploid_coverage_struct: the struct at row l of mt, aggregated over *)
(* the columns S (the columns agg.filter lets through).                    *)

ThresholdOf(field) == CHOOSE i \in Thresholds : HalfName(i) = field

\* Line 49: the column a male sample's count is read from, for field f.
MaleColumn(f) == f

\* Variant of OtherColumn: every sample read from the column the field is
\* named after.
SameAsMaleColumn(f) == f

\* Line 50: the column any other sample's count is read from, for field f.
OtherColumn(f) == FullName(ThresholdOf(f))

\* Variant of NullFloat: zero for a column the schema does not have.
ZeroForMissing == Rat(0, 1)

\* hl.null(hl.tfloat32)
NullFloat == NULL

HaploidCoverageStruct(mt, l, S) ==
    LET e == mt.rows[l]
        n == [c \in S |-> Int2Rat(e[c].n)]
        col(name) == [c \in S |-> Int2Rat(e[c].over[name])]
    IN  Cond(InAutosomeOrPar(l),
          [mean |-> RDiv(RMul(HALF, AggSum(S, [c \in S |-> Int2Rat(e[c].mean * e[c].n)])),
                         AggSum(S, n)),
           over |-> [f \in HalfCols |->
                       RDiv(AggSum(S, col(FullName(ThresholdOf(f)))), AggSum(S, n))]],
          [mean |-> RDiv(AggSum(S, [c \in S |->
                                      Cond(c.sex = "male",
                                           Int2Rat(e[c].mean * e[c].n),
                                           RMul(HALF, Int2Rat(e[c].mean * e[c].n)))]),
                         AggSum(S, n)),
           over |-> [f \in HalfCols |->
                       IF f \notin mt.entry THEN NullFloat
                       ELSE RDiv(AggSum(S, [c \in S |->
                                              Cond(c.sex = "male",
                                                   Int2Rat(e[c].over[MaleColumn(f)]),
                                                   Int2Rat(e[c].over[OtherColumn(f)]))]),
                                 AggSum(S, n))]])

----------------------------------------------------------------------------
(* get_cov_ht *)

ALL == <<"a", "l", "l">>

\* f'{data_type}_{platform}'
ColumnName(data_type, platform) == data_type \o <<"_">> \o platform

QcPlatforms(mt) == {c.qc_platform : c \in mt.cols}

\* The columns agg.filter(cov_mt.qc_platform == platform, ...) aggregates
\* for the row field name; the <data_type>_all field aggregates them all.
ColsOf(mt, data_type, name) ==
    IF name = ColumnName(data_type, ALL) THEN mt.cols
    ELSE {c \in mt.cols : ColumnName(data_type, c.qc_platform) = name}

RowFields(mt, data_type) ==
    {ColumnName(data_type, p) : p \in QcPlatforms(mt)} \cup {ColumnName(data_type, ALL)}

GetCovHt(mt, data_type) ==
    [l \in DOMAIN mt.rows |->
        [name \in RowFields(mt, data_type) |->
            HaploidCoverageStruct(mt, l, ColsOf(mt, data_type, name))]]

----------------------------------------------------------------------------
(* Strings as sequences of characters. *)

StartsWith(x, prefix) ==
    Len(x) >= Len(prefix) /\ SubSeq(x, 1, Len(prefix)) = prefix

\* Python's x.split("_")
RECURSIVE Split(_)
Split(x) ==
    IF \A k \in 1..Len(x) : x[k] # "_" THEN <<x>>
    ELSE LET k == CHOOSE k \in 1..Len(x) :
                     x[k] = "_" /\ \A j \in 1..(k - 1) : x[j] # "_"
         IN  <<SubSeq(x, 1, k - 1)>> \o Split(SubSeq(x, k + 1, Len(x)))

\* Variant of Delimit: only the first part kept.
FirstPart(parts) == IF parts = <<>> THEN <<>> ELSE parts[1]

\* hl.delimit(parts, delimiter="_")
RECURSIVE Delimit(_)
Delimit(parts) ==
    IF parts = <<>> THEN <<>>
    ELSE IF Len(parts) = 1 THEN parts[1]
    ELSE parts[1] \o <<"_">> \o Delimit(Tail(parts))

----------------------------------------------------------------------------
(* import_cds_from_gtf *)

\* Contigs of an annotation file; "GL" is not a contig of the reference.
FileContigs == Contigs \cup {"GL"}

GeneIds == {"g1", "g2"}

\* The gene_name attribute of a gene's features.
GeneName(g) == IF g = "g1" THEN "A" ELSE "B"

\* import_gtf with skip_invalid_contigs=True: the features on contigs of the
\* reference; a feature's interval includes both its start and its end.
ImportGtf(file) == {f \in file : f.contig \in Contigs}

\* gtf.filter(...)
FilterCds(ht) ==
    {f \in ht : f.feature = "CDS" /\ f.transcript_type = "protein_coding"
                   /\ f.tag = "basic"}

\* hl.range(start, stop): the integers from start up to, not including, stop.
Range(start, stop) == start..(stop - 1)

\* The locus array annotated on feature f and its explode: one row per
\* element, with the selected fields.
ExplodeLocus(f) ==
    {[gene_id |-> f.gene_id, locus |-> [contig |-> f.contig, position |-> x],
      gene_name |-> f.gene_name] : x \in Range(f.start, f.end)}

\* The exploded table, by the feature each row comes from.
Explode(ht) == [f \in ht |-> ExplodeLocus(f)]

Key(r) == <<r.locus, r.gene_id>>

\* key_by('locus', 'gene_id').distinct(): one row for each key.
Distinct(rows) ==
    {CHOOSE r \in rows : Key(r) = k : k \in {Key(r) : r \in rows}}

GeneByBase(ex) == Distinct(UNION {ex[f] : f \in DOMAIN ex})

----------------------------------------------------------------------------
(* compute_per_base_cds_coverage: the annotate of lines 76-80. *)

\* The row fields of a coverage table (its schema).
CovFields(mt, data_type) == RowFields(mt, data_type)

\* **table[gtf.locus]: each field of the row of table with key l, missing
\* when the table has no such row.
Splat(table, fields, l) ==
    [name \in fields |-> IF l \in DOMAIN table THEN table[l][name] ELSE NULL]

\* Variant of AnnotatedRows: an inner join.
InnerRows(ht, table) == {r \in ht : r.locus \in DOMAIN table}

\* The rows of ht that ht.annotate(.. table[ht.locus] ..) keeps: all of
\* them, with or without a row of table at their locus.
AnnotatedRows(ht, table) == ht

GENE_NAME == <<"g", "e", "n", "e", "_", "n", "a", "m", "e">>

MAPPABILITY == <<"m", "a", "p", "p", "a", "b", "i", "l", "i", "t", "y">>

\* The joined table: its row (non-key) fields and its rows.  The fields of
\* the two coverage tables are kept together in the row's cov.
Annotate(ht, exomes_cov, exomes_fields, genomes_cov, genomes_fields, mappability) ==
    [row_value |-> {GENE_NAME} \cup exomes_fields \cup genomes_fields \cup {MAPPABILITY},
     rows |->
       {[locus |-> r.locus, gene_id |-> r.gene_id, gene_name |-> r.gene_name,
         cov |-> [name \in exomes_fields \cup genomes_fields |->
                    IF name \in exomes_fields
                    THEN Splat(exomes_cov, exomes_fields, r.locus)[name]
                    ELSE Splat(genomes_cov, genomes_fields, r.locus)[name]],
         mappability |-> IF r.locus \in DOMAIN mappability
                         THEN mappability[r.locus].duke_35_map ELSE NULL] :
          r \in AnnotatedRows(AnnotatedRows(AnnotatedRows(ht, exomes_cov), genomes_cov),
                              mappability)}]

----------------------------------------------------------------------------
(* export_gene_coverage *)

min_good_coverage_dp == "over_10.0"

min_good_coverage_prop == Rat(8, 10)

\* Variant of FilterIntervals: no interval removed.
KeepEverything(rows) == rows

\* hl.filter_intervals(cov, [hl.parse_locus_interval('Y')], keep=False)
FilterIntervals(rows) == {r \in rows : r.locus.contig # "Y"}

\* The coverage struct columns the summary is made for.
StatFields(row_value) ==
    {x \in row_value : StartsWith(x, EXOMES) \/ StartsWith(x, GENOMES)}

\* cov[x][min_good_coverage_dp] on the rows S; missing when the struct is.
WellCovered(S, x) ==
    [r \in S |-> IF r.cov[x] = NULL THEN NULL ELSE r.cov[x].over[min_good_coverage_dp]]

Min(S) == CHOOSE m \in S : \A k \in S : m <= k

Max(S) == CHOOSE m \in S : \A k \in S : m >= k

\* The aggregate of the group S of gene g; first is the row hl.agg.take(.., 1)
\* sees first.
Aggregate(g, S, first, row_value) ==
    [gene_id |-> g,
     gene_name |-> first.gene_name,
     gene_interval |->
       [start |-> [contig |-> first.locus.contig,
                   position |-> Min({r.locus.position : r \in S})],
        end |-> [contig |-> first.locus.contig,
                 position |-> Max({r.locus.position : r \in S})]],
     mean_mappability |-> AggMean(S, [r \in S |-> r.mappability]),
     cov_stats |->
       [x \in StatFields(row_value) |->
          [data_type |-> Split(x)[1],
           platform |-> Delimit(Tail(Split(x))),
           frac_well_covered_bases |->
             AggFraction(S, {r \in S : /\ WellCovered(S, x)[r] # NULL
                                        /\ RatGeq(WellCovered(S, x)[r],
                                                   min_good_coverage_prop)}),
           mean_well_covered_samples |-> AggMean(S, WellCovered(S, x))]]]

\* explode('cov_stats') and select: the rows one aggregate gives.
ExplodeStats(a) ==
    [x \in DOMAIN a.cov_stats |->
       [gene_id |-> a.gene_id, gene_name |-> a.gene_name,
        gene_interval |-> a.gene_interval,
        mean_mappability |-> a.mean_mappability,
        data_type |-> a.cov_stats[x].data_type,
        platform |-> a.cov_stats[x].platform,
        frac_well_covered_bases |-> a.cov_stats[x].frac_well_covered_bases,
        mean_well_covered_samples |-> a.cov_stats[x].mean_well_covered_samples]]

\* The exported table as a bag: each row with the number of times it occurs.
\* first gives, for each gene, the row its group's take(.., 1) returns.
ExportRows(table, first) ==
    LET cov == FilterIntervals(table.rows)
        genes == {r.gene_id : r \in cov}
        agg == [g \in genes |->
                  Aggregate(g, {r \in cov : r.gene_id = g}, first[g], table.row_value)]
        out == {<<g, x>> : g \in genes, x \in StatFields(table.row_value)}
        rows == {ExplodeStats(agg[o[1]])[o[2]] : o \in out}
    IN  [r \in rows |-> Cardinality({o \in out : ExplodeStats(agg[o[1]])[o[2]] = r})]

\* The rows take(.., 1) may return first, gene by gene.
Firsts(table) ==
    LET cov == FilterIntervals(table.rows)
        genes == {r.gene_id : r \in cov}
    IN  {f \in [genes -> cov] : \A g \in genes : f[g].gene_id = g}

----------------------------------------------------------------------------
(* Files of the storage: absent, being written (an overwrite removes the   *)
(* old content first) or complete; run is the run that wrote the file.     *)

EmptyFcn == [x \in {} |-> x]

Absent == [status |-> "absent", run |-> 0, content |-> {}]

Writing(r) == [status |-> "writing", run |-> r, content |-> {}]

Complete(r, c) == [status |-> "complete", run |-> r, content |-> c]

----------------------------------------------------------------------------
(* main and the stages. *)

Args == [compute_per_base_cds_coverage : BOOLEAN, export_gene_coverage : BOOLEAN]

\* The stage a position of the run belongs to.
Stage(p) ==
    IF p \in {"get_cov_ht", "import_cds_from_gtf", "checkpoint", "annotate", "write"}
    THEN "compute_per_base_cds_coverage"
    ELSE IF p \in {"export_gene_coverage", "export"} THEN "export_gene_coverage"
    ELSE "main"

\* Where main goes when compute_per_base_cds_coverage has returned or was
\* not asked for.
AfterCompute(a) == IF a.export_gene_coverage THEN "export_gene_coverage" ELSE "done"

\* Variant of AfterFailure: the error is swallowed and main goes on.
ContinueAfterFailure(p, a) ==
    IF Stage(p) = "compute_per_base_cds_coverage" THEN AfterCompute(a) ELSE "done"

\* Where the run goes when the step at p raises: nothing catches it.
AfterFailure(p, a) == "aborted"

\* Variant of Overwrite: a complete file is kept and reused.
KeepComplete(cp, r) == IF cp.status = "complete" THEN cp ELSE Writing(r)

\* checkpoint(path, overwrite=True) starts: whatever file cp is at the path
\* is replaced by the one run r writes.
Overwrite(cp, r) == Writing(r)

Main ==
    /\ pc = "main"
    /\ pc' = IF args.compute_per_base_cds_coverage THEN "get_cov_ht"
             ELSE AfterCompute(args)
    /\ started' = IF Stage(pc') = "main" THEN started ELSE started \cup {Stage(pc')}
    /\ UNCHANGED <<annotation, cov_mt, ucsc_mappability, args, run, cov_ht, exploded,
                   gtf, checkpoint, joined, tsv, failed, gtf_imports>>

\* Lines 71-72: get_cov_ht('genomes'), then get_cov_ht('exomes').
CallGetCovHt ==
    /\ pc = "get_cov_ht"
    /\ LET data_type == IF GENOMES \notin DOMAIN cov_ht THEN GENOMES ELSE EXOMES
       IN  /\ cov_ht' = [d \in DOMAIN cov_ht \cup {data_type} |->
                           IF d = data_type THEN GetCovHt(cov_mt[d], d) ELSE cov_ht[d]]
           /\ pc' = IF data_type = EXOMES THEN "import_cds_from_gtf" ELSE pc
    /\ UNCHANGED <<annotation, cov_mt, ucsc_mappability, args, run, exploded, gtf,
                   checkpoint, joined, tsv, started, failed, gtf_imports>>

\* Lines 10-19, up to the start of the checkpoint's write.
ImportCdsFromGtf ==
    /\ pc = "import_cds_from_gtf"
    /\ exploded' = Explode(FilterCds(ImportGtf(annotation)))
    /\ gtf_imports' = gtf_imports + 1
    /\ checkpoint' = Overwrite(checkpoint, run)
    /\ pc' = "checkpoint"
    /\ UNCHANGED <<annotation, cov_mt, ucsc_mappability, args, run, cov_ht, gtf,
                   joined, tsv, started, failed>>

\* Line 19: the checkpoint is written and read back.
CheckpointDone ==
    /\ pc = "checkpoint"
    /\ checkpoint' = Complete(run, GeneByBase(exploded))
    /\ gtf' = checkpoint'.content
    /\ pc' = "annotate"
    /\ UNCHANGED <<annotation, cov_mt, ucsc_mappability, args, run, cov_ht, exploded,
                   joined, tsv, started, failed, gtf_imports>>

\* Lines 76-81, up to the start of the write.
WriteJoined ==
    /\ pc = "annotate"
    /\ joined' = Overwrite(joined, run)
    /\ pc' = "write"
    /\ UNCHANGED <<annotation, cov_mt, ucsc_mappability, args, run, cov_ht, exploded,
                   gtf, checkpoint, tsv, started, failed, gtf_imports>>

\* Line 81: the write completes and compute_per_base_cds_coverage returns.
WriteDone ==
    /\ pc = "write"
    /\ joined' = Complete(run,
                    Annotate(gtf, cov_ht[EXOMES], CovFields(cov_mt[EXOMES], EXOMES),
                             cov_ht[GENOMES], CovFields(cov_mt[GENOMES], GENOMES),
                             ucsc_mappability))
    /\ pc' = AfterCompute(args)
    /\ started' = IF Stage(pc') = "main" THEN started ELSE started \cup {Stage(pc')}
    /\ UNCHANGED <<annotation, cov_mt, ucsc_mappability, args, run, cov_ht, exploded,
                   gtf, checkpoint, tsv, failed, gtf_imports>>

\* Line 91: read_table needs a complete table.
ReadTable ==
    /\ pc = "export_gene_coverage"
    /\ joined.status = "complete"
    /\ tsv' = Writing(run)
    /\ pc' = "export"
    /\ UNCHANGED <<annotation, cov_mt, ucsc_mappability, args, run, cov_ht, exploded,
                   gtf, checkpoint, joined, started, failed, gtf_imports>>

\* Lines 92-126.
Export ==
    /\ pc = "export"
    /\ \E first \in Firsts(joined.content) :
          tsv' = Complete(run, ExportRows(joined.content, first))
    /\ pc' = "done"
    /\ UNCHANGED <<annotation, cov_mt, ucsc_mappability, args, run, cov_ht, exploded,
                   gtf, checkpoint, joined, started, failed, gtf_imports>>

\* A step of the engine raises (a missing or incomplete input, an
\* evaluation error): the file being written stays incomplete.
Fail ==
    /\ Stage(pc) # "main"
    /\ pc' = AfterFailure(pc, args)
    /\ failed' = IF failed = "none" THEN Stage(pc) ELSE failed
    /\ started' = IF Stage(pc') = "main" THEN started ELSE started \cup {Stage(pc')}
    /\ UNCHANGED <<annotation, cov_mt, ucsc_mappability, args, run, cov_ht, exploded,
                   gtf, checkpoint, joined, tsv, gtf_imports>>

\* The script is invoked again, on the same inputs and storage.
Rerun ==
    /\ pc \in {"done", "aborted"}
    /\ run < MaxRuns
    /\ run' = run + 1
    /\ args' \in Args
    /\ pc' = "main"
    /\ cov_ht' = EmptyFcn
    /\ exploded' = EmptyFcn
    /\ gtf' = {}
    /\ started' = {}
    /\ failed' = "none"
    /\ UNCHANGED <<annotation, cov_mt, ucsc_mappability, checkpoint, joined, tsv,
                   gtf_imports>>

----------------------------------------------------------------------------
(* Inputs. *)

\* The values of (feature, transcript_type, tag) of a feature: the one the
\* filter of line 15 keeps, and one failing each of its three conditions.
Kept == [feature |-> "CDS", transcript_type |-> "protein_coding", tag |-> "basic"]

FeatureKinds ==
    {Kept, [Kept EXCEPT !.feature = "exon"], [Kept EXCEPT !.transcript_type = "lincRNA"],
     [Kept EXCEPT !.tag = "CCDS"]}

Feature(k, g, c, s, e) ==
    [feature |-> k.feature, transcript_type |-> k.transcript_type, tag |-> k.tag,
     gene_id |-> g, gene_name |-> GeneName(g), contig |-> c, start |-> s, end |-> e]

\* The features of the given kinds on the given contigs; an interval has
\* start <= end.
FeaturesOf(kinds, contigs) ==
    {Feature(x[1], x[2], x[3], x[4], x[5]) :
        x \in {y \in kinds \X GeneIds \X contigs \X (1..MaxPos) \X (1..MaxPos) :
                 y[4] <= y[5]}}

\* Annotation files of one or two features, one of A and one of B.
FilesOf(A, B) == {{a, b} : a \in A, b \in B}

\* A matrix with a male and a non-male column of different platforms, rows
\* for the loci L, and depth falling with the position.
TableMt(L) ==
    LET schema == FullCols \cup {"over_0.5", "over_7.5"}
        cols == {[qc_platform |-> <<"a">>, sex |-> "male"],
                 [qc_platform |-> <<"b", "_", "c">>, sex |-> "female"]}
    IN  [entry |-> schema, cols |-> cols,
         rows |-> [l \in L |-> [c \in cols |->
                     Entry(schema, IF c.sex = "male" THEN 1 ELSE MaxN,
                           IF l.position = 1 THEN [mean |-> 3, cut |-> 30]
                           ELSE [mean |-> 3, cut |-> 15])]]]

\* The loci a table has rows for: the first position of each contig, or
\* the second.
RowSets == {{l \in Loci : l.position = 1}, {l \in Loci : l.position = 2}}

\* A mappability table with rows for the loci L.
TableMappability(L) ==
    [l \in L |-> [duke_35_map |-> IF l.position = 1 THEN Rat(1, 2) ELSE Rat(1, 1)]]

\* The state of a first run called with the flags a.
Start(a) ==
    /\ args = a
    /\ pc = "main"
    /\ run = 1
    /\ cov_ht = EmptyFcn
    /\ exploded = EmptyFcn
    /\ gtf = {}
    /\ checkpoint = Absent
    /\ joined = Absent
    /\ tsv = Absent
    /\ started = {}
    /\ failed = "none"
    /\ gtf_imports = 0

Both == [compute_per_base_cds_coverage |-> TRUE, export_gene_coverage |-> TRUE]

----------------------------------------------------------------------------
(* The script, run up to MaxRuns times, any step of a stage may raise.     *)

\* The features spanning positions 1..MaxPos.
Spanning(features) == {f \in features : f.start = 1 /\ f.end = MaxPos}

Init ==
    /\ annotation \in FilesOf(Spanning(FeaturesOf({Kept}, {"1", "Y"})),
                               Spanning(FeaturesOf({Kept}, {"1", "Y"})))
    /\ cov_mt = [d \in DataTypes |-> TableMt({l \in Loci : l.position = 1})]
    /\ ucsc_mappability = TableMappability({l \in Loci : l.position = 2})
    /\ \E a \in Args : Start(a)

Next ==
    \/ Main
    \/ CallGetCovHt
    \/ ImportCdsFromGtf
    \/ CheckpointDone
    \/ WriteJoined
    \/ WriteDone
    \/ ReadTable
    \/ Export
    \/ Fail
    \/ Rerun

Spec == Init /\ [][Next]_vars

----------------------------------------------------------------------------
(* One run of both stages in which no step raises, over the annotation     *)
(* files of kept features and the tables with and without rows at a locus. *)

InitTables ==
    /\ annotation \in FilesOf(FeaturesOf({Kept}, {"1", "Y"}),
                               FeaturesOf({Kept}, {"1", "Y"}))
    /\ \E Le \in RowSets, Lg \in RowSets :
          cov_mt = [d \in DataTypes |-> IF d = EXOMES THEN TableMt(Le) ELSE TableMt(Lg)]
    /\ \E L \in RowSets : ucsc_mappability = TableMappability(L)
    /\ Start(Both)

NextTables ==
    \/ Main
    \/ CallGetCovHt
    \/ ImportCdsFromGtf
    \/ CheckpointDone
    \/ WriteJoined
    \/ WriteDone
    \/ ReadTable
    \/ Export

SpecTables == InitTables /\ [][NextTables]_vars

----------------------------------------------------------------------------
(* import_cds_from_gtf applied to the annotation files.                    *)

InitGtf ==
    /\ annotation \in FilesOf(FeaturesOf(FeatureKinds, FileContigs),
                               FeaturesOf({Kept}, {"1"}))
    /\ cov_mt = [d \in DataTypes |-> TableMt({l \in Loci : l.position = 1})]
    /\ ucsc_mappability = TableMappability({l \in Loci : l.position = 2})
    /\ Start(Both)

NextGtf ==
    \/ Main
    \/ CallGetCovHt
    \/ ImportCdsFromGtf
    \/ CheckpointDone

SpecGtf == InitGtf /\ [][NextGtf]_vars

----------------------------------------------------------------------------
(* get_cov_ht applied to the coverage matrices of one row.                 *)

\* An autosomal locus, a PAR locus and a locus off the PAR of X and of Y.
CovLoci ==
    {l \in Loci : \/ l.contig = "1" /\ l.position = ParEnd
                  \/ l.contig = "X" /\ l.position \in {ParEnd, ParEnd + 1}
                  \/ l.contig = "Y" /\ l.position = ParEnd + 1}

InitCov ==
    /\ annotation = {Feature(Kept, "g1", "1", 1, MaxPos)}
    /\ \E l \in CovLoci : \E mt \in Matrices({l}) : cov_mt = [d \in DataTypes |-> mt]
    /\ ucsc_mappability = TableMappability({l \in Loci : l.position = 2})
    /\ Start(Both)

NextCov ==
    \/ Main
    \/ CallGetCovHt

SpecCov == InitCov /\ [][NextCov]_vars

----------------------------------------------------------------------------
(* Properties of get_haploid_coverage_struct (SpecCov). *)

RECURSIVE SumOver(_, _)
SumOver(S, f) ==
    IF S = {} THEN 0
    ELSE LET c == CHOOSE c \in S : TRUE IN f[c] + SumOver(S \ {c}, f)

\* The structs get_cov_ht has returned: data type, locus and row field.
Structs ==
    UNION {UNION {{<<d, l, name>> : name \in DOMAIN cov_ht[d][l]} :
                  l \in DOMAIN cov_ht[d]} :
           d \in DOMAIN cov_ht}

StructAt(t) == cov_ht[t[1]][t[2]][t[3]]

\* The samples (grouped columns) a struct aggregates and their entries.
SamplesAt(t) == ColsOf(cov_mt[t[1]], t[1], t[3])

EntriesAt(t) == cov_mt[t[1]].rows[t[2]]

SumN(t) == SumOver(SamplesAt(t), [c \in SamplesAt(t) |-> EntriesAt(t)[c].n])

\* Twice the weight w_i of sample c at locus l.
TwiceWeight(c, l) ==
    IF l.contig \in {"X", "Y"} /\ l.position > ParEnd /\ c.sex = "male" THEN 2 ELSE 1

\* C2: the adjusted mean is sum(w_i * mean_i * n_i) / sum(n_i), with w_i = 1
\* for male samples at a non-PAR sex-chromosome locus and w_i = 0.5 otherwise;
\* at an autosomal or PAR locus it is half the n-weighted mean of the means.
C2_AdjustedMean ==
    \A t \in Structs :
      LET S == SamplesAt(t)
          e == EntriesAt(t)
          m == StructAt(t).mean
      IN  /\ m.den # 0
          /\ RatEq(m, Rat(SumOver(S, [c \in S |-> TwiceWeight(c, t[2]) * e[c].mean * e[c].n]),
                          2 * SumN(t)))
          /\ InAutosomeOrPar(t[2]) =>
                RatEq(RMul(Int2Rat(2), m),
                      Rat(SumOver(S, [c \in S |-> e[c].mean * e[c].n]), SumN(t)))

\* A struct at a non-PAR X locus over a male and a non-male sample of
\* different mean and n.
C2_Witness ==
    \E t \in Structs :
      /\ t[2].contig = "X" /\ ~InAutosomeOrPar(t[2])
      /\ \E c1 \in SamplesAt(t), c2 \in SamplesAt(t) :
           /\ c1.sex = "male" /\ c2.sex = "female"
           /\ EntriesAt(t)[c1].mean # EntriesAt(t)[c2].mean
           /\ EntriesAt(t)[c1].n # EntriesAt(t)[c2].n

\* The sum over the samples of a struct of the male samples' value in
\* column male_col and the other samples' value in column other_col.
BySexSum(t, male_col, other_col) ==
    SumOver(SamplesAt(t),
            [c \in SamplesAt(t) |->
               IF c.sex = "male" THEN EntriesAt(t)[c].over[male_col]
               ELSE EntriesAt(t)[c].over[other_col]])

\* The structs at non-PAR sex-chromosome loci, with the raw thresholds i
\* whose column over_{i/2} is in the entry schema.
NonParWithColumn ==
    {<<t, i>> \in Structs \X Thresholds :
        ~InAutosomeOrPar(t[2]) /\ OverField(i) \in cov_mt[t[1]].entry}

\* C3 as amended: at a non-PAR sex-chromosome locus, where the column
\* over_{i/2} exists, field over_{i/2} is the sum of the male samples' value
\* in column over_{i/2} and the other samples' value in column over_{i}
\* (the raw threshold), divided by the sum of n.
C3_FractionOver ==
    \A x \in NonParWithColumn :
      LET v == StructAt(x[1]).over[OverField(x[2])]
      IN  /\ v # NULL
          /\ v.den # 0
          /\ RatEq(v, Rat(BySexSum(x[1], OverField(x[2]), OverField(2 * x[2])),
                          SumN(x[1])))

\* C3 as stated: male samples contribute their value at the full threshold
\* (column over_{i}), the others their value at the half threshold (column
\* over_{i/2}).
C3_AsStated ==
    \A x \in NonParWithColumn :
      LET v == StructAt(x[1]).over[OverField(x[2])]
      IN  /\ v # NULL
          /\ RatEq(v, Rat(BySexSum(x[1], OverField(2 * x[2]), OverField(x[2])),
                          SumN(x[1])))

\* A non-PAR struct over a male and a non-male sample whose values in the
\* columns over_5.0 and over_10.0 differ.
C3_Witness ==
    \E x \in NonParWithColumn :
      /\ x[2] = 10
      /\ \E c1 \in SamplesAt(x[1]), c2 \in SamplesAt(x[1]) :
           /\ c1.sex = "male" /\ c2.sex = "female"
           /\ \A c \in {c1, c2} :
                EntriesAt(x[1])[c].over["over_5.0"] # EntriesAt(x[1])[c].over["over_10.0"]

\* C4: at a non-PAR sex-chromosome locus a field over_{i/2} is null when the
\* entry schema has no column of that name and a fraction when it has; at an
\* autosomal or PAR locus it is the fraction computed from column over_{i}.
C4_MissingColumnIsNull ==
    \A t \in Structs : \A i \in Thresholds :
      LET v == StructAt(t).over[OverField(i)]
      IN  IF InAutosomeOrPar(t[2])
          THEN /\ v # NULL
               /\ v.den # 0
               /\ RatEq(v, Rat(SumOver(SamplesAt(t),
                                       [c \in SamplesAt(t) |->
                                          EntriesAt(t)[c].over[OverField(2 * i)]]),
                               SumN(t)))
          ELSE IF OverField(i) \in cov_mt[t[1]].entry
               THEN v # NULL /\ v.den # 0
               ELSE v = NULL

\* A struct at a non-PAR locus, of a schema without column over_2.5 and
\* with column over_7.5: the one field is null, the other is not.
C4_Witness ==
    \E t \in Structs :
      /\ ~InAutosomeOrPar(t[2])
      /\ "over_2.5" \notin cov_mt[t[1]].entry
      /\ "over_7.5" \in cov_mt[t[1]].entry
      /\ StructAt(t).over["over_2.5"] = NULL
      /\ StructAt(t).over["over_7.5"] # NULL

----------------------------------------------------------------------------
(* Properties of import_cds_from_gtf (SpecGtf). *)

\* The features of the annotation file the filter of line 15 keeps.
KeptFeatures == FilterCds(ImportGtf(annotation))

\* The interval of f, both ends included, covers locus l.
Covers(f, l) == f.contig = l.contig /\ f.start <= l.position /\ l.position <= f.end

\* C1: the explode gives, for each kept feature, one record for each position
\* from the start of its interval through its end (L records for an interval
\* of L bases), each with the feature's gene_id and gene_name.
C1_ExplodeCoversInterval ==
    \A f \in DOMAIN exploded :
      /\ Cardinality(exploded[f]) = f.end - f.start + 1
      /\ exploded[f] =
           {[gene_id |-> f.gene_id, locus |-> [contig |-> f.contig, position |-> x],
             gene_name |-> f.gene_name] : x \in f.start..f.end}

\* C9: the gene model has at most one row for a (locus, gene_id); a base two
\* kept features of one gene cover has exactly one row for that gene, a base
\* kept features of two genes cover has exactly two rows, one for each gene.
C9_OneRowPerGeneAtBase ==
    checkpoint.status = "complete" =>
      /\ \A r1 \in checkpoint.content, r2 \in checkpoint.content :
           Key(r1) = Key(r2) => r1 = r2
      /\ \A l \in Loci : \A f1 \in KeptFeatures, f2 \in KeptFeatures :
           (f1 # f2 /\ Covers(f1, l) /\ Covers(f2, l)) =>
             LET rows == {r \in checkpoint.content : r.locus = l}
             IN  IF f1.gene_id = f2.gene_id
                 THEN Cardinality({r \in rows : r.gene_id = f1.gene_id}) = 1
                 ELSE /\ Cardinality(rows) = 2
                      /\ {r.gene_id : r \in rows} = {f1.gene_id, f2.gene_id}

----------------------------------------------------------------------------
(* Properties of the join and of the export (SpecTables). *)

\* C8: the joined table has exactly the (locus, gene_id) keys of the gene
\* model, one row for each; a field is the matching row's field where the
\* coverage or mappability table has a row at the locus and null where not.
C8_JoinKeepsKeys ==
    joined.status = "complete" =>
      LET rows == joined.content.rows
      IN  /\ {Key(r) : r \in rows} = {Key(r) : r \in checkpoint.content}
          /\ Cardinality(rows) = Cardinality(checkpoint.content)
          /\ \A r \in rows :
               /\ \A d \in DataTypes : \A name \in RowFields(cov_mt[d], d) :
                    IF r.locus \in DOMAIN cov_mt[d].rows
                    THEN r.cov[name] = cov_ht[d][r.locus][name]
                    ELSE r.cov[name] = NULL
               /\ IF r.locus \in DOMAIN ucsc_mappability
                  THEN r.mappability = ucsc_mappability[r.locus].duke_35_map
                  ELSE r.mappability = NULL

\* A joined table with a row matched in the exomes table only, and a row
\* matched in the other two tables only.
C8_Witness ==
    /\ joined.status = "complete"
    /\ \E r1 \in joined.content.rows, r2 \in joined.content.rows :
         /\ r1.locus \in DOMAIN cov_mt[EXOMES].rows
         /\ r1.locus \notin DOMAIN cov_mt[GENOMES].rows
         /\ r1.locus \notin DOMAIN ucsc_mappability
         /\ r1.cov[ColumnName(EXOMES, ALL)] # NULL
         /\ r1.cov[ColumnName(GENOMES, ALL)] = NULL
         /\ r2.locus \notin DOMAIN cov_mt[EXOMES].rows
         /\ r2.locus \in DOMAIN cov_mt[GENOMES].rows
         /\ r2.locus \in DOMAIN ucsc_mappability

\* The rows of gene g in the joined table that are not on contig Y.
NonY(g) == {r \in joined.content.rows : r.gene_id = g /\ r.locus.contig # "Y"}

\* C5: no base on contig Y takes part in the summary: a row is made only
\* for a gene with a base off Y, its interval, mappability and the number of
\* bases its coverage fractions count are those of the gene's bases off Y,
\* and a gene whose bases are all on Y has no row.
C5_NoYInSummary ==
    tsv.status = "complete" =>
      /\ \A r \in DOMAIN tsv.content :
           LET S == NonY(r.gene_id)
           IN  /\ S # {}
               /\ r.gene_interval.start.contig # "Y"
               /\ r.gene_interval.end.contig # "Y"
               /\ r.gene_interval.start.position = Min({q.locus.position : q \in S})
               /\ r.gene_interval.end.position = Max({q.locus.position : q \in S})
               /\ r.mean_mappability = AggMean(S, [q \in S |-> q.mappability])
               /\ r.frac_well_covered_bases.den = Cardinality(S)
      /\ \A g \in GeneIds :
           NonY(g) = {} => \A r \in DOMAIN tsv.content : r.gene_id # g

\* An export of a table where one gene has bases on Y only and the other
\* has bases off Y.
C5_Witness ==
    /\ tsv.status = "complete"
    /\ \E g1 \in GeneIds, g2 \in GeneIds :
         /\ NonY(g1) = {}
         /\ \E r \in joined.content.rows : r.gene_id = g1 /\ r.locus.contig = "Y"
         /\ NonY(g2) # {}
         /\ \E r \in DOMAIN tsv.content : r.gene_id = g2

\* The genes and the coverage struct columns the summary has rows for.
SummaryGenes == {r.gene_id : r \in {q \in joined.content.rows : q.locus.contig # "Y"}}

SummaryColumns ==
    {x \in joined.content.row_value : StartsWith(x, EXOMES) \/ StartsWith(x, GENOMES)}

\* C10: the exported table has exactly one row for each gene with a base off
\* Y and each coverage struct column, and no other row; the row's data_type,
\* an underscore and its platform give the column's name.
C10_OneRowPerGeneAndColumn ==
    tsv.status = "complete" =>
      /\ \A g \in SummaryGenes : \A x \in SummaryColumns :
           LET rows == {r \in DOMAIN tsv.content :
                          r.gene_id = g /\ r.data_type \o <<"_">> \o r.platform = x}
           IN  SumOver(rows, tsv.content) = 1
      /\ SumOver(DOMAIN tsv.content, tsv.content)
           = Cardinality(SummaryGenes) * Cardinality(SummaryColumns)
      /\ \A r \in DOMAIN tsv.content : r.data_type \in DataTypes

\* An export for two genes, with the columns of a platform whose name has an
\* underscore and of the aggregate over all platforms.
C10_Witness ==
    /\ tsv.status = "complete"
    /\ Cardinality(SummaryGenes) = 2
    /\ \E r1 \in DOMAIN tsv.content, r2 \in DOMAIN tsv.content :
         /\ r1.data_type = EXOMES /\ r1.platform = <<"b", "_", "c">>
         /\ r2.data_type = GENOMES /\ r2.platform = ALL

----------------------------------------------------------------------------
(* Properties of the runs (Spec). *)

\* C6 as stated: when the checkpoint of an earlier run exists, a call of
\* import_cds_from_gtf reuses it: the gene model is not computed from the
\* annotation file again and the checkpoint is left as it is.
C6_ReusesCheckpoint ==
    [][(pc = "import_cds_from_gtf" /\ checkpoint.status = "complete")
         => (gtf_imports' = gtf_imports /\ checkpoint' = checkpoint)]_vars

\* C6 as amended: every call of import_cds_from_gtf computes the gene model
\* from the annotation file again and overwrites the checkpoint, whether or
\* not one exists; the gene model the join uses is the one this run wrote.
C6_RecomputesAndOverwrites ==
    /\ [][(pc = "import_cds_from_gtf" /\ pc' # "aborted" /\ pc' # pc)
            => /\ gtf_imports' = gtf_imports + 1
               /\ exploded' = Explode(KeptFeatures)
               /\ checkpoint' = Writing(run)]_vars
    /\ [](pc \in {"annotate", "write"} =>
            /\ checkpoint.run = run
            /\ checkpoint.content = GeneByBase(Explode(KeptFeatures)))

\* A second run has computed the gene model again and rewritten the
\* checkpoint the first run had completed.
C6_Witness ==
    /\ joined.status = "complete" /\ joined.run = 1
    /\ run = 2
    /\ gtf_imports = 2
    /\ checkpoint.status = "complete" /\ checkpoint.run = 2

\* C7: the export stage runs only on a complete joined table, the one this
\* run wrote when the join stage ran in it; the join runs only on the
\* checkpoint this run completed; once a stage has failed the run is over,
\* and the export stage is not started after a failure of the join stage.
C7_StagesInOrder ==
    /\ (Stage(pc) = "export_gene_coverage" /\ args.compute_per_base_cds_coverage) =>
         joined.status = "complete" /\ joined.run = run
    /\ pc = "export" => joined.status = "complete"
    /\ pc \in {"annotate", "write"} =>
         checkpoint.status = "complete" /\ checkpoint.run = run /\ gtf = checkpoint.content
    /\ failed # "none" =>
         /\ pc = "aborted"
         /\ failed = "compute_per_base_cds_coverage" => "export_gene_coverage" \notin started

\* A rerun with both flags is exporting the table it has just written.
C7_Witness ==
    /\ pc = "export"
    /\ args.compute_per_base_cds_coverage
    /\ run > 1
    /\ joined.run = run

====
